---------------------------- MODULE Spec2Model ----------------------------
(***************************************************************************)
(* wit: the recency-wins dependency resolver, WorkSpace.update, together   *)
(* with the parts of GitRepo it calls.                                     *)
(*                                                                         *)
(* The world is a small set of git repositories.  Each repository has a    *)
(* few commits with a committer time, a parent and a wit-manifest.json;    *)
(* the workspace has a root manifest, on-disk clones (with a HEAD) and a   *)
(* wit-lock.json.  One behaviour is up to MaxRuns consecutive runs of      *)
(* WorkSpace.update on the same workspace.                                 *)
(***************************************************************************)
EXTENDS Integers, Sequences, FiniteSets, TLC

\* ------------------------------------------------------------------ bounds
\* committer times are drawn from 9..MaxTime: one and two decimal digits
MaxTime == 10
\* number of consecutive runs of WorkSpace.update in one behaviour
MaxRuns == 2
\* greatest number of characters of a path given to path_to_name
MaxPathLen == 5
\* greatest number of lines git writes to stderr in one command
MaxStderrLines == 2
\* number of consecutive calls of operations on one GitRepo
MaxGitCalls == 2
\* greatest number of lines git status --porcelain prints in one clone
MaxStatusLines == 2

\* ------------------------------------------------------------------- world
Names == {"a", "b"}
\* the commits of each repository, numbered in topological order
NumCommits == ("a" :> 2) @@ ("b" :> 1)
Commits == {c \in Names \X (1..2) : c[2] <= NumCommits[c[1]]}
Times == 9..MaxTime

\* a revision as a manifest writes it: the full hash of commit id, a short
\* hash of it, a branch whose tip it is, HEAD, or a name git cannot resolve
Hash(i) == [kind |-> "hash", id |-> i]
Short(i) == [kind |-> "short", id |-> i]
Branch(i) == [kind |-> "branch", id |-> i]
HeadRev == [kind |-> "HEAD", id |-> 0]
NoSuchRev == [kind |-> "missing", id |-> 0]

\* the two places a repository may be declared to live at
SrcX == ("a" :> "/x/a.git") @@ ("b" :> "/x/b.git")
SrcY == ("a" :> "/y/a.git") @@ ("b" :> "/y/b.git")
NoSource == "-"

VARIABLES
    \* the repositories (never change)
    ctime,          \* commit -> committer epoch seconds
    parent,         \* commit -> id of its parent commit in the same repository, 0 for a root commit
    pkg_manifest,   \* commit -> the wit-manifest.json at that commit
    ws_manifest,    \* self.manifest.packages: the root manifest
    blocked,        \* names whose working tree makes git checkout fail
    \* the workspace on disk
    head,           \* name -> commit id HEAD points at in the clone
    cloned,         \* names with a clone under the workspace root
    lockfile,       \* wit-lock.json
    \* WorkSpace and the locals of update
    ws_lock,        \* self.lock
    queue,
    version_selector_map,
    source_map,
    pc,             \* "idle", "loop", "done"
    err,            \* the exception or exit that ended the run
    \* history
    run,            \* number of the current run
    lock_before,    \* wit-lock.json and self.lock when the run began
    first,          \* how the first run ended
    queued,         \* <<name, commit id>> of every tuple ever put on the queue in this run
    edges,          \* <<parent time, child time>> of every child pushed in this run
    refused,        \* <<parent time, child time>> of the child refused as newer than its parent
    seen,           \* <<name, source>> of every declaration taken from a manifest in this run
    popped,         \* the tuple the last iteration popped, and the selection it met
    reads,          \* the commit-time queries and manifest reads issued in this run
    ref_outcome     \* the outcome of the run under the code's own pop order

VARIABLES
    \* one call of GitRepo.path_to_name: its argument and what it returned
    path_call,
    \* one GitRepo object and the directory self.path it stands for
    tree,           \* self.path on disk: absent, a plain directory or a repository
    remote,         \* source -> what the repository at that source holds (never changes)
    git_call,       \* the last call of an operation of GitRepo: arguments, git commands, result
    git_prev,       \* the call before it
    git_calls,      \* number of calls made
    \* the commands of main.py
    fs,             \* path -> what is there: whether it exists and the URL of its origin remote
    cwd,            \* the directory wit is run in
    cwd_manifest,   \* the wit-manifest.json in cwd
    porcelain,      \* name -> what git status --porcelain prints in that clone
    ws_dirs,        \* name -> what ws.root/name is: absent, a plain directory or a repository
    cmd_call        \* the command that was run: arguments, output, exception

world == <<ctime, parent, pkg_manifest, ws_manifest, blocked>>
disk == <<head, cloned, lockfile>>
locals == <<ws_lock, queue, version_selector_map, source_map, pc, err>>
history == <<run, lock_before, first, queued, edges, refused, seen, popped, reads,
              ref_outcome>>
resolver == <<world, disk, locals, history>>
\* the calls of the single operations of GitRepo and of the commands
git_vars == <<tree, remote, git_call, git_prev, git_calls>>
cmd_vars == <<fs, cwd, cwd_manifest, porcelain, ws_dirs, cmd_call>>
tools == <<path_call, git_vars, cmd_vars>>
vars == <<resolver, tools>>

\* ------------------------------------------------------------- exceptions
NoError == [type |-> "none", args |-> <<>>]
\* workspace.py:138 raises the bare class: the exception carries no arguments
NotAncestorError == [type |-> "NotAncestorError", args |-> <<>>]
GitError == [type |-> "GitError", args |-> <<>>]
\* workspace.py:160-164: log.error names the repo and both sources, then sys.exit(1)
SourceConflictExit(name, source, known) ==
    [type |-> "SourceConflict", args |-> <<name, source, known>>]
\* workspace.py:178-181: log.error names the dependent, then sys.exit(1)
DependentNewerExit(name) == [type |-> "DependentNewer", args |-> <<name>>]

\* ------------------------------------------------------------ git backend
\* the decimal digits of n, most significant first: what --format=%ct prints
RECURSIVE Digits(_)
Digits(n) == IF n < 10 THEN <<n>> ELSE Append(Digits(n \div 10), n % 10)

\* the number a digit string denotes
RECURSIVE Value(_)
Value(s) ==
    IF s = <<>> THEN 0 ELSE 10 * Value(SubSeq(s, 1, Len(s) - 1)) + s[Len(s)]

\* Python's str.__lt__: code point by code point, a proper prefix is smaller
StrLess(s, t) ==
    \E k \in 1..Len(t) :
        /\ k - 1 <= Len(s)
        /\ \A j \in 1..(k - 1) : s[j] = t[j]
        /\ (k > Len(s) \/ s[k] < t[k])

\* git rev-parse in the clone of name: the commit id, 0 when it fails
get_commit(hd, name, rev) ==
    CASE rev.kind = "HEAD" -> hd[name]
      [] rev.kind = "missing" -> 0
      [] OTHER -> rev.id

\* git log -n1 --format=%ct <hash>, stdout rstripped: a str
commit_time_output(t) == Digits(t)

\* GitRepo.commit_to_time: ok is FALSE when _git_check raises GitError
commit_to_time(hd, name, rev) ==
    LET id == get_commit(hd, name, rev) IN
    IF id = 0 THEN [ok |-> FALSE, out |-> <<>>]
    ELSE [ok |-> TRUE, out |-> commit_time_output(ctime[<<name, id>>])]

\* i is j or reachable from j along parent edges
RECURSIVE Reaches(_, _, _)
Reaches(name, i, j) ==
    IF j = 0 THEN FALSE
    ELSE IF i = j THEN TRUE
    ELSE Reaches(name, i, parent[<<name, j>>])

\* git merge-base --is-ancestor exits 0
merge_base_is_ancestor(name, i, j) == i # 0 /\ j # 0 /\ Reaches(name, i, j)

\* is_ancestor with its two revisions exchanged on the git command line
is_ancestor_swapped(hd, name, ancestor, current) ==
    merge_base_is_ancestor(name, get_commit(hd, name, current),
                           get_commit(hd, name, ancestor))

\* GitRepo.is_ancestor(ancestor, current)
is_ancestor(hd, name, ancestor, current) ==
    merge_base_is_ancestor(name, get_commit(hd, name, ancestor),
                           get_commit(hd, name, current))


\* ---------------------------------------------------------------- packages
\* an entry of a manifest: the GitRepo the manifest reader builds for it
Dep(name, source, revision) ==
    [name |-> name, source |-> source, revision |-> revision]

\* WorkSpace.__init__: self.repo_paths = []
repo_paths == <<>>

\* GitRepo.find_source(repo_paths): the first search directory that holds a
\* repository of that name gives the source, else the declared source stays
find_source(dep_repo, paths) ==
    IF \E i \in 1..Len(paths) : dep_repo.name \in DOMAIN paths[i]
    THEN LET i == CHOOSE i \in 1..Len(paths) :
                      /\ dep_repo.name \in DOMAIN paths[i]
                      /\ \A j \in 1..(i - 1) : dep_repo.name \notin DOMAIN paths[j]
         IN [dep_repo EXCEPT !.source = paths[i][dep_repo.name]]
    ELSE dep_repo

\* a package whose manifest is never read
no_dependencies(hd, repo) == <<>>

\* GitRepo.get_dependencies: git show <revision>:wit-manifest.json, parsed;
\* no such file at that revision gives no dependencies
get_dependencies(hd, repo) ==
    LET id == get_commit(hd, repo.name, repo.revision) IN
    IF id = 0 THEN <<>> ELSE pkg_manifest[<<repo.name, id>>]

\* ------------------------------------------------------ WorkSpace.update
\* the key of queue.sort: tup[0], the commit time as commit_to_time gave it
sort_key(tup) == tup[1]

\* a is ordered before b by the key: str < str
key_less(a, b) == StrLess(sort_key(a), sort_key(b))

\* list.sort is stable: x goes behind every element whose key is not greater
insert_sorted(s, x) ==
    LET k == Cardinality({i \in 1..Len(s) : ~key_less(x, s[i])}) IN
    SubSeq(s, 1, k) \o <<x>> \o SubSeq(s, k + 1, Len(s))

RECURSIVE sort_from(_, _, _)
sort_from(q, i, acc) ==
    IF i > Len(q) THEN acc ELSE sort_from(q, i + 1, insert_sorted(acc, q[i]))

\* queue.sort(key=lambda tup: tup[0])
sort_queue(q) == sort_from(q, 1, <<>>)

\* the queue without its k-th tuple; queue.pop() is k = Len(queue)
remove_at(q, k) == SubSeq(q, 1, k - 1) \o SubSeq(q, k + 1, Len(q))

\* a map in which no name is ever found
never_selected(vsm, reponame) == FALSE

\* reponame in version_selector_map
is_selected(vsm, reponame) == \E i \in 1..Len(vsm) : vsm[i].name = reponame

\* version_selector_map[reponame]['commit']
selected_commit(vsm, reponame) ==
    (CHOOSE e \in {vsm[i] : i \in 1..Len(vsm)} : e.name = reponame).commit

\* an assignment that is lost: the map stays as it was
select_nothing(vsm, reponame, commit, repo) == vsm

\* version_selector_map[reponame] = {'commit': commit, 'repo': repo} for a new key
select(vsm, reponame, commit, repo) ==
    Append(vsm, [name |-> reponame, commit |-> commit, repo |-> repo])

\* the source test with == in the place of !=
source_conflict_inverted(smap, dep_repo) ==
    smap[dep_repo.name] # NoSource /\ dep_repo.source = smap[dep_repo.name]

\* dep_repo.name in source_map and dep_repo.source != source_map[dep_repo.name]
source_conflict(smap, dep_repo) ==
    smap[dep_repo.name] # NoSource /\ dep_repo.source # smap[dep_repo.name]

\* step 10 left out: no dependent is ever found newer than its parent
dependent_never_newer(dep_commit_time, commit_time) == FALSE

\* dep_commit_time > commit_time, on what commit_to_time returned
dependent_is_newer(dep_commit_time, commit_time) ==
    StrLess(commit_time, dep_commit_time)

\* the locals of update before the first line runs
fresh(cl) ==
    [queue |-> <<>>, version_selector_map |-> <<>>,
     source_map |-> [n \in Names |-> NoSource],
     cloned |-> cl, err |-> NoError, queued |-> {}, edges |-> {},
     refused |-> {}, seen |-> {}, reads |-> {}]

\* a git command that reads the clone of name at revision: whether the clone
\* exists, and the commit the revision names in it, 0 when it holds none
Read(op, cl, hd, name, revision) ==
    [op |-> op, name |-> name, cloned |-> name \in cl,
     id |-> IF name \in cl THEN get_commit(hd, name, revision) ELSE 0]

\* for repo in self.manifest.packages: ... queue.append, source_map[...] = ...
RECURSIVE enqueue_packages(_, _, _, _)
enqueue_packages(hd, packages, i, st) ==
    IF i > Len(packages) \/ st.err.type # "none" THEN st
    ELSE
      LET repo == packages[i]
          commit == repo.revision
          t == IF repo.name \in st.cloned
               THEN commit_to_time(hd, repo.name, commit)
               ELSE [ok |-> FALSE, out |-> <<>>]
          asked == [st EXCEPT !.reads = @ \cup
                       {Read("commit_to_time", st.cloned, hd, repo.name, commit)}]
      IN IF ~t.ok THEN [asked EXCEPT !.err = GitError]
         ELSE enqueue_packages(hd, packages, i + 1,
                [asked EXCEPT
                   !.queue = Append(@, <<t.out, commit, repo.name, repo>>),
                   !.source_map = [@ EXCEPT ![repo.name] = repo.source],
                   !.seen = @ \cup {<<repo.name, repo.source>>},
                   !.queued = @ \cup
                       {<<repo.name, get_commit(hd, repo.name, commit)>>}])

\* for dep_repo in dependencies: steps 8 to 11
RECURSIVE examine_children(_, _, _, _, _)
examine_children(hd, dependencies, i, commit_time, st) ==
    IF i > Len(dependencies) \/ st.err.type # "none" THEN st
    ELSE
      LET dep_repo == find_source(dependencies[i], repo_paths)
          t == commit_to_time(hd, dep_repo.name, dep_repo.revision)
          st1 == [st EXCEPT !.seen = @ \cup {<<dep_repo.name, dep_repo.source>>}]
          st2 == [st1 EXCEPT !.cloned = @ \cup {dep_repo.name},
                             !.reads = @ \cup
                                 {Read("commit_to_time", st.cloned \cup {dep_repo.name}, hd,
                                       dep_repo.name, dep_repo.revision)}]
      IN IF source_conflict(st.source_map, dep_repo)
         THEN [st1 EXCEPT !.err = SourceConflictExit(dep_repo.name, dep_repo.source,
                                                     st.source_map[dep_repo.name])]
         ELSE IF ~t.ok
         THEN [st2 EXCEPT !.err = GitError]
         ELSE IF dependent_is_newer(t.out, commit_time)
         THEN [st2 EXCEPT !.err = DependentNewerExit(dep_repo.name),
                          !.refused = @ \cup {<<Value(commit_time), Value(t.out)>>}]
         ELSE examine_children(hd, dependencies, i + 1, commit_time,
                [st2 EXCEPT
                   !.queue = Append(@, <<t.out, dep_repo.revision, dep_repo.name,
                                         dep_repo>>),
                   !.source_map = [@ EXCEPT ![dep_repo.name] = dep_repo.source],
                   !.queued = @ \cup
                       {<<dep_repo.name,
                          get_commit(hd, dep_repo.name, dep_repo.revision)>>},
                   !.edges = @ \cup {<<Value(commit_time), Value(t.out)>>}])

\* one iteration of `while queue`, taking the k-th tuple off the queue
loop_body(hd, st, k) ==
    LET tup == st.queue[k]
        commit_time == tup[1]
        commit == tup[2]
        reponame == tup[3]
        repo == tup[4]
        st1 == [st EXCEPT !.queue = remove_at(@, k)]
    IN IF is_selected(st.version_selector_map, reponame)
       THEN IF ~is_ancestor(hd, reponame, commit,
                            selected_commit(st.version_selector_map, reponame))
            THEN [st1 EXCEPT !.err = NotAncestorError]
            ELSE st1
       ELSE
         LET st2 == [st1 EXCEPT !.version_selector_map =
                                    select(@, reponame, commit, repo),
                                !.reads = @ \cup
                                    {Read("get_dependencies", st.cloned, hd, reponame,
                                          commit)}]
             st3 == examine_children(hd, get_dependencies(hd, repo), 1,
                                     commit_time, st2)
         IN IF st3.err.type # "none" THEN st3
            ELSE [st3 EXCEPT !.queue = sort_queue(@)]

\* checkout that leaves self.revision as the manifest wrote it
kept_revision(revision, id) == revision

\* GitRepo.checkout: git checkout <revision>, then self.revision = HEAD's hash
checked_out_revision(revision, id) == Hash(id)

\* the entry LockFile writes for a package
lock_entry(repo, revision) ==
    [name |-> repo.name, source |-> repo.source, commit |-> revision]

\* lock_packages.insert(0, lock_repo)
lock_prepend(packages, entry) == <<entry>> \o packages

\* lock_packages.append(lock_repo)
lock_append(packages, entry) == Append(packages, entry)

\* step 14: for reponame in version_selector_map: checkout, add to lock
RECURSIVE checkout_all(_, _, _)
checkout_all(vsm, i, co) ==
    IF i > Len(vsm) \/ co.err.type # "none" THEN co
    ELSE
      LET commit == vsm[i].commit
          repo == vsm[i].repo
          id == get_commit(co.head, repo.name, commit)
      IN IF id = 0 \/ repo.name \in blocked
         THEN [co EXCEPT !.err = GitError]
         ELSE checkout_all(vsm, i + 1,
                [co EXCEPT
                   !.head = [@ EXCEPT ![repo.name] = id],
                   !.packages = lock_append(@,
                       lock_entry(repo, checked_out_revision(commit, id)))])

\* LockFile(lock_packages), as wit-lock.json holds it
LockFile(packages) == [exists |-> TRUE, packages |-> packages]
NoLock == [exists |-> FALSE, packages |-> <<>>]

\* the lock written whatever the checkouts did
written_lock_always(co, old) == LockFile(co.packages)

\* new_lock.write(self.lockfile_path()); self.lock = new_lock: only reached
\* when no checkout raised
written_lock(co, old) == IF co.err.type = "none" THEN LockFile(co.packages) ELSE old


\* how a run ended: whether it succeeded and the packages of the lock it wrote
Outcome(e, packages) ==
    [ok |-> e.type = "none", packages |-> IF e.type = "none" THEN packages ELSE <<>>]
NoOutcome == [ok |-> FALSE, packages |-> <<>>]

\* the tuple an iteration popped and what it found selected for its name
Popped(tup, vsm) ==
    [valid |-> TRUE, time |-> tup[1], commit |-> tup[2], name |-> tup[3],
     was_selected |-> is_selected(vsm, tup[3]),
     selected |-> IF is_selected(vsm, tup[3]) THEN selected_commit(vsm, tup[3])
                  ELSE NoSuchRev]
NonePopped ==
    [valid |-> FALSE, time |-> <<>>, commit |-> NoSuchRev, name |-> "",
     was_selected |-> FALSE, selected |-> NoSuchRev]

\* ------------------------------------------------------ the initial worlds
RootDepsA == {Dep("a", SrcX["a"], Hash(1)), Dep("a", SrcX["a"], Branch(2))}
RootDepsB == {Dep("b", SrcX["b"], Short(1))}
RootManifests ==
    {<<>>, <<Dep("a", SrcX["a"], NoSuchRev)>>}
    \cup {<<d>> : d \in RootDepsA \cup RootDepsB}
    \cup {<<d, e>> : d \in RootDepsA, e \in RootDepsB}
    \cup {<<e, d>> : d \in RootDepsA, e \in RootDepsB}

\* what wit-manifest.json may hold at each commit
ManifestsA ==
    {<<>>, <<Dep("b", SrcX["b"], Short(1))>>, <<Dep("b", SrcY["b"], Short(1))>>}
ManifestsB1 ==
    {<<>>, <<Dep("a", SrcY["a"], Branch(2))>>}
    \cup {<<Dep("a", SrcX["a"], r)>> : r \in {Hash(1), Branch(2), HeadRev, NoSuchRev}}

PackageManifests ==
    {(<<"a", 1>> :> m1) @@ (<<"a", 2>> :> m2) @@ (<<"b", 1>> :> m3) :
        m1 \in ManifestsA, m2 \in ManifestsA, m3 \in ManifestsB1}

\* every commit's parent is an earlier commit of its repository, or none
Parents == {p \in [Commits -> 0..1] : \A c \in Commits : p[c] < c[2]}

DeclaredNames(packages) == {packages[i].name : i \in 1..Len(packages)}

\* no call of path_to_name is in progress
NoPathCall == [path |-> <<>>, name |-> <<>>, returned |-> FALSE]
PathIdle == path_call = NoPathCall

\* no operation of GitRepo is called apart from WorkSpace.update
NoTree == [kind |-> "absent", tip |-> "none"]
NoGitCall ==
    [op |-> "none", arg |-> "", inputs |-> <<>>, before |-> NoTree, cmds |-> <<>>,
     procs |-> <<>>, exc |-> NoError, ret |-> <<>>]
NoGitPrev == [call |-> NoGitCall, after |-> NoTree]
GitIdle ==
    /\ tree = NoTree
    /\ remote = [src \in {SrcX["a"], SrcY["a"]} |-> "none"]
    /\ git_call = NoGitCall
    /\ git_prev = NoGitPrev
    /\ git_calls = 0

\* paths are sequences of components below /; the workspace is /ws
wsroot == <<"ws">>
dotwit == wsroot \o <<".wit">>
\* the paths that dependency_from_tag may look at
FsPaths ==
    {<<"ws", "a">>, <<"ws", ".wit", "a">>, <<"ws", "d", "a">>, <<"ws", ".wit", "d", "a">>,
     <<"home", "a">>, <<"srv", "a">>}
NoEntry == [exists |-> FALSE, origin |-> "none"]
\* no wit-manifest.json in the directory
NoManifestFile == [exists |-> FALSE, deps |-> <<>>]

\* no command of main.py is run
\* the names ws.root.iterdir() may find: those of the packages and one more
StatusDirs == Names \cup {"d"}
NoCmdCall == [cmd |-> "none", args |-> <<>>, out |-> <<>>, exc |-> NoError]
CmdIdle ==
    /\ fs = [q \in FsPaths |-> NoEntry]
    /\ cwd = wsroot
    /\ cwd_manifest = NoManifestFile
    /\ porcelain = [n \in Names |-> <<>>]
    /\ ws_dirs = [n \in StatusDirs |-> NoTree]
    /\ cmd_call = NoCmdCall

\* nothing but WorkSpace.update runs
ToolsIdle == PathIdle /\ GitIdle /\ CmdIdle

Init ==
    /\ ctime \in [Commits -> Times]
    /\ parent \in Parents
    /\ pkg_manifest \in PackageManifests
    /\ ws_manifest \in RootManifests
    /\ blocked \in {{}, {"a"}, {"b"}}
    /\ head = [n \in Names |-> 1]
    /\ cloned = DeclaredNames(ws_manifest)
    /\ lockfile = NoLock
    /\ ws_lock = NoLock
    /\ queue = <<>>
    /\ version_selector_map = <<>>
    /\ source_map = [n \in Names |-> NoSource]
    /\ pc = "idle"
    /\ err = NoError
    /\ run = 1
    /\ lock_before = [file |-> NoLock, mem |-> NoLock]
    /\ first = NoOutcome
    /\ queued = {}
    /\ edges = {}
    /\ refused = {}
    /\ seen = {}
    /\ popped = NonePopped
    /\ reads = {}
    /\ ref_outcome = NoOutcome
    /\ ToolsIdle

\* ----------------------------------------------------------------- actions
\* the locals of update, as one record
Locals ==
    [queue |-> queue, version_selector_map |-> version_selector_map,
     source_map |-> source_map, cloned |-> cloned, err |-> err,
     queued |-> queued, edges |-> edges, refused |-> refused, seen |-> seen,
     reads |-> reads]

Store(st) ==
    /\ queue' = st.queue
    /\ version_selector_map' = st.version_selector_map
    /\ source_map' = st.source_map
    /\ cloned' = st.cloned
    /\ err' = st.err
    /\ queued' = st.queued
    /\ edges' = st.edges
    /\ refused' = st.refused
    /\ seen' = st.seen
    /\ reads' = st.reads

\* update, up to the first test of `while queue`
seeded(hd, cl, packages) ==
    LET st == enqueue_packages(hd, packages, 1, fresh(cl)) IN
    IF st.err.type # "none" THEN st ELSE [st EXCEPT !.queue = sort_queue(@)]

BeginRun ==
    /\ pc = "idle"
    /\ LET st == seeded(head, cloned, ws_manifest) IN
         /\ Store(st)
         /\ pc' = IF st.err.type # "none" THEN "done" ELSE "loop"
    /\ lock_before' = [file |-> lockfile, mem |-> ws_lock]
    /\ popped' = NonePopped
    /\ UNCHANGED <<world, head, lockfile, ws_lock, run, first, tools>>

Begin == BeginRun /\ UNCHANGED ref_outcome

PopAt(k) ==
    /\ pc = "loop"
    /\ queue # <<>>
    /\ \E st \in {loop_body(head, Locals, k)} :
         /\ Store(st)
         /\ pc' = IF st.err.type # "none" THEN "done" ELSE "loop"
    /\ popped' = Popped(queue[k], version_selector_map)
    /\ UNCHANGED <<world, head, lockfile, ws_lock, run, lock_before, first, ref_outcome,
                   tools>>

\* one iteration of the while loop: queue.pop() takes the last tuple
Iterate == PopAt(Len(queue))

\* the queue is empty: steps 13 and 14, the lock is written
Finish ==
    /\ pc = "loop"
    /\ queue = <<>>
    /\ LET co == checkout_all(version_selector_map, 1,
                              [head |-> head, packages |-> <<>>, err |-> NoError])
       IN /\ head' = co.head
          /\ err' = co.err
          /\ lockfile' = written_lock(co, lockfile)
          /\ ws_lock' = written_lock(co, ws_lock)
    /\ pc' = "done"
    /\ popped' = NonePopped
    /\ UNCHANGED <<world, cloned, queue, version_selector_map, source_map,
                   run, lock_before, first, queued, edges, refused, seen, reads,
                   ref_outcome, tools>>

\* wit is started again in the same workspace: WorkSpace.find reads the lock
Rerun ==
    /\ pc = "done"
    /\ run < MaxRuns
    /\ run' = run + 1
    /\ first' = IF run = 1 THEN Outcome(err, lockfile.packages) ELSE first
    /\ ws_lock' = lockfile
    /\ pc' = "idle"
    /\ err' = NoError
    /\ queue' = <<>>
    /\ version_selector_map' = <<>>
    /\ source_map' = [n \in Names |-> NoSource]
    /\ queued' = {}
    /\ edges' = {}
    /\ refused' = {}
    /\ seen' = {}
    /\ reads' = {}
    /\ popped' = NonePopped
    /\ UNCHANGED <<world, disk, lock_before, ref_outcome, tools>>

Next == Begin \/ Iterate \/ Finish \/ Rerun

Spec == Init /\ [][Next]_vars

\* ------------------------------------------- the run under any tie-break
\* the while loop run to its end, popping the last tuple each time
RECURSIVE run_loop(_, _)
run_loop(hd, st) ==
    IF st.err.type # "none" \/ st.queue = <<>> THEN st
    ELSE run_loop(hd, loop_body(hd, st, Len(st.queue)))

\* update from its first line to its last
update(hd, cl, packages) ==
    LET st == run_loop(hd, seeded(hd, cl, packages))
        co == checkout_all(st.version_selector_map, 1,
                           [head |-> hd, packages |-> <<>>, err |-> NoError])
    IN IF st.err.type # "none" THEN Outcome(st.err, <<>>)
       ELSE Outcome(co.err, co.packages)

BeginTie == BeginRun /\ ref_outcome' = update(head, cloned, ws_manifest)

\* an iteration that takes any of the tuples that share the greatest key
IterateTie ==
    \E k \in 1..Len(queue) :
        /\ sort_key(queue[k]) = sort_key(queue[Len(queue)])
        /\ PopAt(k)

NextTie == BeginTie \/ IterateTie \/ Finish

SpecTie == Init /\ [][NextTie]_vars


\* ------------------------------------------------------------------ claims
Succeeded == pc = "done" /\ err.type = "none"
Failed == pc = "done" /\ err.type # "none"

\* the commit id the written lock pins name to, 0 when the lock has no such entry
Locked(name) ==
    IF \E i \in 1..Len(lockfile.packages) : lockfile.packages[i].name = name
    THEN (CHOOSE e \in {lockfile.packages[i] : i \in 1..Len(lockfile.packages)} :
              e.name = name).commit.id
    ELSE 0

\* C1: in a run that succeeds, every commit that was ever queued for a name
\* is the commit finally selected for that name or an ancestor of it.
C1_RecencyDominates ==
    Succeeded => \A q \in queued : Reaches(q[1], q[2], Locked(q[1]))

\* a run succeeded in which two different commits were queued for one name
C1_Witness ==
    /\ Succeeded
    /\ \E q1 \in queued, q2 \in queued : q1[1] = q2[1] /\ q1[2] # q2[2]

\* C2: a popped tuple whose name is already selected ends the run with a
\* NotAncestor error that identifies the name, the popped commit and the
\* selected commit exactly when the popped commit is not an ancestor of the
\* selected one; otherwise the tuple is dropped and the loop goes on.
C2_NotAncestorIdentifies ==
    (popped.valid /\ popped.was_selected) =>
        IF is_ancestor(head, popped.name, popped.commit, popped.selected)
        THEN pc = "loop" /\ err = NoError
        ELSE /\ pc = "done"
             /\ err.type = "NotAncestorError"
             /\ err.args = <<popped.name, popped.commit, popped.selected>>

\* the declarations of the root manifest and of the manifest of every package
\* reachable from it, each package at the commit it is declared at
DeclTarget(hd, d) == <<d.name, get_commit(hd, d.name, d.revision)>>
DeclsOf(packages) == {packages[i] : i \in 1..Len(packages)}
RECURSIVE ReachableFrom(_, _)
ReachableFrom(hd, cs) ==
    LET more == {DeclTarget(hd, d) :
                    d \in UNION {DeclsOf(pkg_manifest[c]) : c \in cs}}
        next == cs \cup (more \cap Commits)
    IN IF next = cs THEN cs ELSE ReachableFrom(hd, next)
GraphDecls(hd) ==
    LET roots == {DeclTarget(hd, d) : d \in DeclsOf(ws_manifest)} \cap Commits IN
    DeclsOf(ws_manifest)
    \cup UNION {DeclsOf(pkg_manifest[c]) : c \in ReachableFrom(hd, roots)}
GraphConflict(hd) ==
    \E d1 \in GraphDecls(hd), d2 \in GraphDecls(hd) :
        d1.name = d2.name /\ d1.source # d2.source

LockUntouched == lockfile = lock_before.file /\ ws_lock = lock_before.mem

\* C3 as stated: two declarations of one name with different sources anywhere
\* in the graph make the run fail with a source conflict, and no lock is written.
C3_SourceIdentity ==
    (run = 1 /\ pc = "done" /\ GraphConflict([n \in Names |-> 1])) =>
        (err.type = "SourceConflict" /\ LockUntouched)

\* C3 as amended: a run fails with a source conflict, and writes no lock,
\* exactly when it took from a manifest a declaration whose source differs from
\* the source recorded for the same name.
SeenConflict == \E d1 \in seen, d2 \in seen : d1[1] = d2[1] /\ d1[2] # d2[2]
C3_SeenSourceConflict ==
    /\ SeenConflict => (pc = "done" /\ err.type = "SourceConflict" /\ LockUntouched)
    /\ err.type = "SourceConflict" => SeenConflict

C3_Witness == pc = "done" /\ err.type = "SourceConflict" /\ SeenConflict

\* C4: a child is refused as newer than its parent exactly when its commit
\* time is greater than the parent's, so every child a successful run queued
\* has a commit time not greater than its parent's.
C4_ChildNotNewer ==
    /\ \A e \in refused : e[2] > e[1]
    /\ \A e \in edges : e[2] <= e[1]

\* C5: every commit field of a written wit-lock.json is a full hash.
C5_FullHashLock ==
    \A i \in 1..Len(lockfile.packages) : lockfile.packages[i].commit.kind = "hash"

\* a lock was written for a selection made through a branch, a short hash or HEAD
C5_Witness ==
    /\ Succeeded
    /\ \E i \in 1..Len(version_selector_map) :
          version_selector_map[i].commit.kind \in {"branch", "short", "HEAD"}

\* C6: the lock a successful run writes has one entry (name, source, selected
\* commit) per selected name, in selection order, and no name twice.
C6_LockIsSelection ==
    Succeeded =>
        /\ lockfile.exists
        /\ Len(lockfile.packages) = Len(version_selector_map)
        /\ \A i \in 1..Len(version_selector_map) :
              LET e == version_selector_map[i] IN
              lockfile.packages[i] =
                  [name |-> e.name, source |-> e.repo.source,
                   commit |-> Hash(get_commit(head, e.name, e.commit))]
        /\ \A i \in 1..Len(lockfile.packages), j \in 1..Len(lockfile.packages) :
              lockfile.packages[i].name = lockfile.packages[j].name => i = j

C6_Witness == Succeeded /\ Len(lockfile.packages) = 2

\* C7: a run that fails leaves wit-lock.json and self.lock as they were.
C7_NoLockOnFailure == Failed => LockUntouched

\* a run failed in a workspace that had a lock, and one failed in the checkout loop
C7_Witness == Failed /\ lockfile.exists
C7_WitnessCheckout ==
    Failed /\ queue = <<>> /\ version_selector_map # <<>> /\ err.type = "GitError"
        /\ popped = NonePopped /\ head # [n \in Names |-> 1]

\* C9: a second run on the unchanged workspace succeeds when the first did
\* and writes the same lock.
C9_Idempotent ==
    (run = 2 /\ pc = "done" /\ first.ok) =>
        (err.type = "none" /\ lockfile.packages = first.packages)

\* C10: commit times are integers, so the queue is kept in ascending numeric
\* order of commit time and a refused child is numerically newer.
C10_NumericTimes ==
    /\ pc = "loop" =>
          \A i \in 1..Len(queue), j \in 1..Len(queue) :
              i < j => Value(queue[i][1]) <= Value(queue[j][1])


\* the commit each name is pinned to
Pins(packages) == {<<packages[i].name, packages[i].commit.id>> : i \in 1..Len(packages)}
SameOutcome(o1, o2) == o1.ok = o2.ok /\ Pins(o1.packages) = Pins(o2.packages)

\* C8 as stated: whatever tuple of those sharing the greatest commit time each
\* iteration pops, the run ends as it does under the code's own order: the
\* same success or failure, the same commit for every name.
C8_TieBreakIndependent ==
    pc = "done" => SameOutcome(Outcome(err, lockfile.packages), ref_outcome)

\* no two commits of one repository have the same commit time
NoTwins ==
    \A c1 \in Commits, c2 \in Commits :
        (c1[1] = c2[1] /\ c1 # c2) => ctime[c1] # ctime[c2]

\* C8 as amended: the same, for repositories in which no two commits share a
\* commit time.
C8_TieBreakIndependentNoTwins ==
    (pc = "done" /\ NoTwins) =>
        SameOutcome(Outcome(err, lockfile.packages), ref_outcome)

\* a run succeeded after popping tied tuples in another order than the code's
C8_Witness ==
    /\ Succeeded
    /\ NoTwins
    /\ ref_outcome.ok
    /\ lockfile.packages # ref_outcome.packages

\* C20: at every iteration of the loop the tuple removed from the queue has a
\* commit time greater than or equal to that of every tuple of the queue it
\* was removed from.
C20_PopGreatest ==
    [][(pc = "loop" /\ queue # <<>>) =>
          \A k \in 1..Len(queue) : Value(queue[k][1]) <= Value(popped'.time)]_vars

\* ------------------------------------------- the resolver at rest
\* a workspace in which WorkSpace.update is not run: the behaviours of the
\* single operations below leave it alone
UpdateIdle ==
    /\ ctime = [c \in Commits |-> 9]
    /\ parent = [c \in Commits |-> 0]
    /\ pkg_manifest = [c \in Commits |-> <<>>]
    /\ ws_manifest = <<>>
    /\ blocked = {}
    /\ queue = <<>>
    /\ version_selector_map = <<>>
    /\ source_map = [n \in Names |-> NoSource]
    /\ pc = "idle"
    /\ err = NoError
    /\ run = 1
    /\ lock_before = [file |-> NoLock, mem |-> NoLock]
    /\ first = NoOutcome
    /\ queued = {}
    /\ edges = {}
    /\ refused = {}
    /\ seen = {}
    /\ popped = NonePopped
    /\ reads = {}
    /\ ref_outcome = NoOutcome

\* the same, in a workspace without clones and without a lock
ResolverIdle ==
    /\ UpdateIdle
    /\ head = [n \in Names |-> 1]
    /\ cloned = {}
    /\ lockfile = NoLock
    /\ ws_lock = NoLock

\* all sequences over S of at most n elements
SeqsUpTo(S, n) == UNION {[1..k -> S] : k \in 0..n}

\* ------------------------------------------------- GitRepo.path_to_name
\* a str is the sequence of its characters
Chars == {"/", ".", "g", "i", "t", "a"}
Paths == SeqsUpTo(Chars, MaxPathLen)
DotGit == <<".", "g", "i", "t">>

\* the pieces of p between its slashes
RECURSIVE path_split(_, _, _)
path_split(p, cur, acc) ==
    IF p = <<>> THEN Append(acc, cur)
    ELSE IF Head(p) = "/" THEN path_split(Tail(p), <<>>, Append(acc, cur))
    ELSE path_split(Tail(p), Append(cur, Head(p)), acc)

\* the parts of Path(p): empty pieces and '.' pieces are dropped
path_parts(p) ==
    SelectSeq(path_split(p, <<>>, <<>>), LAMBDA x : x # <<>> /\ x # <<".">>)

\* Path(p).name: the last part, '' when there is none
path_name(p) ==
    LET parts == path_parts(p) IN
    IF parts = <<>> THEN <<>> ELSE parts[Len(parts)]

\* str.replace(old, new): every occurrence of old, found from left to right
\* and not overlapping, is replaced
RECURSIVE str_replace(_, _, _)
str_replace(s, old, new) ==
    IF Len(s) < Len(old) THEN s
    ELSE IF SubSeq(s, 1, Len(old)) = old
         THEN new \o str_replace(SubSeq(s, Len(old) + 1, Len(s)), old, new)
         ELSE <<Head(s)>> \o str_replace(Tail(s), old, new)

\* Path(path).name.replace('.git', '')
path_to_name(path) == str_replace(path_name(path), DotGit, <<>>)

PathToName ==
    /\ ~path_call.returned
    /\ path_call' = [path_call EXCEPT !.name = path_to_name(path_call.path),
                                      !.returned = TRUE]
    /\ UNCHANGED <<resolver, git_vars, cmd_vars>>

InitPath ==
    /\ ResolverIdle
    /\ path_call \in {[path |-> p, name |-> <<>>, returned |-> FALSE] : p \in Paths}
    /\ GitIdle
    /\ CmdIdle

NextPath == PathToName

SpecPath == InitPath /\ [][NextPath]_vars

\* s with one '.git' taken from its end, when it ends with one
strip_trailing_git(s) ==
    IF Len(s) >= Len(DotGit) /\ SubSeq(s, Len(s) - Len(DotGit) + 1, Len(s)) = DotGit
    THEN SubSeq(s, 1, Len(s) - Len(DotGit))
    ELSE s

\* C11: path_to_name(p) is the final path segment of p with a trailing '.git'
\* stripped and nothing else changed.
C11_PathToName ==
    path_call.returned =>
        path_call.name = strip_trailing_git(path_name(path_call.path))

\* what C11 leaves of the claim for the code: the name is the final segment
\* with every '.git' in it removed, so it is as the claim says whenever the
\* segment holds no '.git' before its end.
C11_EveryDotGitRemoved ==
    path_call.returned =>
        LET seg == path_name(path_call.path) IN
        (\A k \in 1..(Len(seg) - Len(DotGit)) :
             SubSeq(seg, k, k + Len(DotGit) - 1) # DotGit)
        => path_call.name = strip_trailing_git(seg)

\* --------------------------------------- GitRepo, one operation at a time
\* self.name and the sources it may be cloned and fetched from
repo_name == "a"
GitSources == {SrcX[repo_name], SrcY[repo_name]}

\* what a repository holds: no ref at all, or refs at an older or newer tip
Tips == {"none", "old", "new"}
RemoteTips == {"none", "new"}
Trees ==
    {NoTree, [kind |-> "dir", tip |-> "none"]} \cup {[kind |-> "repo", tip |-> t] : t \in Tips}

\* exceptions of the single operations
BadSource(name, source) == [type |-> "BadSource", args |-> <<name, source>>]
TypeError == [type |-> "TypeError", args |-> <<>>]
AssertionError == [type |-> "AssertionError", args |-> <<>>]
FileExistsError == [type |-> "FileExistsError", args |-> <<>>]
FileNotFoundError == [type |-> "FileNotFoundError", args |-> <<>>]
\* `raise BadSource` (gitrepo.py:78) gives the class, which Python instantiates
\* without arguments; BadSource.__init__ requires name and source
BadSource_without_arguments == TypeError

\* text is a sequence of pieces; git writes stderr line by line, a line being
\* a prefix, the quoted source and a message
FatalRepository == "fatal: repository"
Space == " "
Newline == "\n"
QuotedSource == "'src'"
DoesNotExist == "does not exist"
NotAGitRepository == "does not appear to be a git repository"
StderrLine(start, message) == <<start, Space, QuotedSource, Space, message, Newline>>
StderrLines ==
    {StderrLine(start, message) :
        start \in {FatalRepository, "fatal:", "warning:"},
        message \in {DoesNotExist, "not found", NotAGitRepository}}
RECURSIVE Texts(_)
Texts(n) ==
    IF n = 0 THEN {<<>>}
    ELSE LET shorter == Texts(n - 1) IN
         shorter \cup {t \o l : t \in shorter, l \in StderrLines}
Stderrs == Texts(MaxStderrLines)

\* str.startswith, str.endswith, `in`, str.rstrip
startswith(s, prefix) == Len(s) >= Len(prefix) /\ SubSeq(s, 1, Len(prefix)) = prefix
endswith(s, suffix) ==
    Len(s) >= Len(suffix) /\ SubSeq(s, Len(s) - Len(suffix) + 1, Len(s)) = suffix
contains(s, sub) ==
    \E k \in 1..(Len(s) - Len(sub) + 1) : SubSeq(s, k, k + Len(sub) - 1) = sub
RECURSIVE rstrip(_)
rstrip(s) ==
    IF s # <<>> /\ s[Len(s)] \in {Newline, Space} THEN rstrip(SubSeq(s, 1, Len(s) - 1))
    ELSE s

\* subprocess.CompletedProcess
Proc(returncode, stdout, stderr) ==
    [returncode |-> returncode, stdout |-> stdout, stderr |-> stderr]
Procs == {Proc(rc, <<>>, t) : rc \in {0, 128}, t \in Stderrs}
\* a few answers of git: done, no repository at the source, another failure
FewProcs ==
    {Proc(0, <<>>, <<>>),
     Proc(128, <<>>, StderrLine(FatalRepository, DoesNotExist)),
     Proc(1, <<>>, <<>>)}
FetchAllProcs == {Proc(0, <<>>, <<>>), Proc(1, <<>>, <<>>)}
\* rev-parse prints a hash, or fails
RevParseProcs ==
    {Proc(0, <<h, Newline>>, <<>>) : h \in {"1f3a", "9c0d"}}
        \cup {Proc(128, <<>>, StderrLine("fatal:", "not found"))}
Refs == {<<"HEAD">>, <<"master">>}

\* GitRepo._git_check: GitError when the command exited non-zero
git_check(proc) == IF proc.returncode # 0 THEN GitError ELSE NoError

\* GitRepo.is_git_repo: git ls-remote --exit-code <path> exits 0, which it
\* does for a repository that has at least one ref
is_git_repo(t) == t.kind = "repo" /\ t.tip # "none"

\* what an operation has done so far
GitStart(t) == [tree |-> t, cmds |-> <<>>, procs |-> <<>>, exc |-> NoError, ret |-> <<>>]

\* GitRepo._git_command: subprocess.run(['git', *args], cwd=str(self.path))
git_command(g, args, proc) ==
    IF g.tree.kind = "absent" THEN [g EXCEPT !.exc = FileNotFoundError]
    ELSE [g EXCEPT !.cmds = Append(@, args), !.procs = Append(@, proc)]

\* self.path.mkdir()
mkdir(g) ==
    IF g.tree.kind # "absent" THEN [g EXCEPT !.exc = FileExistsError]
    ELSE [g EXCEPT !.tree = [kind |-> "dir", tip |-> "none"]]

\* the test of clone on the stderr of a failed git clone
is_missing_repository_prefix_only(stderr) == startswith(stderr, <<FatalRepository>>)
is_missing_repository(stderr) ==
    /\ startswith(stderr, <<FatalRepository>>)
    /\ endswith(stderr, <<DoesNotExist, Newline>>)

\* GitRepo.clone
clone(g, source, proc) ==
    IF is_git_repo(g.tree) THEN [g EXCEPT !.exc = AssertionError]
    ELSE LET made == mkdir(g) IN
         IF made.exc # NoError THEN made
         ELSE LET ran == git_command(made, <<"clone", "--no-checkout", source, "self.path">>,
                                     proc)
              IN IF git_check(proc) = NoError
                 THEN [ran EXCEPT !.tree = [kind |-> "repo", tip |-> remote[source]]]
                 ELSE [ran EXCEPT !.exc = IF is_missing_repository(proc.stderr)
                                          THEN BadSource(repo_name, source)
                                          ELSE git_check(proc)]

\* GitRepo.fetch
fetch(g, source, proc, proc_all) ==
    LET tried == git_command(g, <<"fetch", source>>, proc) IN
    IF tried.exc # NoError THEN tried
    ELSE LET both == git_command(tried, <<"fetch", "--all">>, proc_all)
             got == IF proc.returncode = 0
                    THEN [both EXCEPT !.tree = [kind |-> "repo", tip |-> remote[source]]]
                    ELSE both
         IN IF git_check(proc) # NoError
            THEN [got EXCEPT !.exc = IF contains(proc.stderr, <<NotAGitRepository>>)
                                     THEN BadSource_without_arguments
                                     ELSE git_check(proc)]
            ELSE [got EXCEPT !.ret = <<proc.returncode = 0>>]

\* GitRepo.get_commit, with the answers git gives to its two attempts
get_commit_attempts(g, commit, proc, proc_origin) ==
    LET tried == git_command(g, <<"rev-parse", commit>>, proc) IN
    IF tried.exc # NoError THEN tried
    ELSE IF git_check(proc) = NoError THEN [tried EXCEPT !.ret = <<rstrip(proc.stdout)>>]
    ELSE LET second == git_command(tried, <<"rev-parse", <<"origin/">> \o commit>>,
                                   proc_origin)
         IN IF git_check(proc_origin) = NoError
            THEN [second EXCEPT !.ret = <<rstrip(proc_origin.stdout)>>]
            ELSE [second EXCEPT !.exc = git_check(proc_origin)]

\* the test of download
needs_clone_always(t) == TRUE
needs_clone(t) == ~is_git_repo(t)

\* GitRepo.download
download(g, source, proc_clone, proc, proc_all) ==
    LET there == IF needs_clone(g.tree) THEN clone(g, source, proc_clone) ELSE g IN
    IF there.exc # NoError THEN there
    ELSE [fetch(there, source, proc, proc_all) EXCEPT !.ret = <<>>]

\* the calls that download follows: those that git gave one of the few
\* answers, get_commit apart, which leaves everything as it was
Followable(c) ==
    /\ c.op # "get_commit"
    /\ \A k \in 1..Len(c.inputs) : c.inputs[k] \in FewProcs \cup FetchAllProcs

\* a command other than clone fails in a directory that is no repository
Answerable(t, proc) == t.kind = "repo" \/ proc.returncode # 0

\* what is kept of a call when the next one is made
Summary(c) ==
    [c EXCEPT !.procs = <<>>, !.inputs = IF c.op = "download" THEN @ ELSE <<>>]

\* the call op(arg) was made, git answered with inputs, and it ended as g
Called(op, arg, inputs, g) ==
    /\ git_calls' = git_calls + 1
    /\ tree' = g.tree
    /\ git_call' = [op |-> op, arg |-> arg, inputs |-> inputs, before |-> tree,
                    cmds |-> g.cmds, procs |-> g.procs, exc |-> g.exc, ret |-> g.ret]
    /\ git_prev' = [call |-> Summary(git_call), after |-> tree]
    /\ UNCHANGED <<remote, resolver, path_call, cmd_vars>>

\* clone, fetch and get_commit are called on a GitRepo that was not used
\* before, with any answer of git; download is called any number of times
Clone ==
    /\ git_calls = 0
    /\ \E source \in GitSources, proc \in Procs :
           Called("clone", source, <<proc>>, clone(GitStart(tree), source, proc))

Fetch ==
    /\ git_calls = 0
    /\ \E source \in GitSources, proc \in Procs, proc_all \in FetchAllProcs :
           /\ Answerable(tree, proc)
           /\ Answerable(tree, proc_all)
           /\ Called("fetch", source, <<proc, proc_all>>,
                     fetch(GitStart(tree), source, proc, proc_all))

GetCommit ==
    /\ git_calls = 0
    /\ \E commit \in Refs, proc \in RevParseProcs, proc_origin \in RevParseProcs :
           /\ Answerable(tree, proc)
           /\ Answerable(tree, proc_origin)
           /\ Called("get_commit", commit, <<proc, proc_origin>>,
                     get_commit_attempts(GitStart(tree), commit, proc, proc_origin))

Download ==
    /\ git_calls < MaxGitCalls
    /\ Followable(git_call)
    /\ \E source \in GitSources, proc_clone \in FewProcs, proc \in FewProcs,
          proc_all \in FetchAllProcs :
           Called("download", source, <<proc_clone, proc, proc_all>>,
                  download(GitStart(tree), source, proc_clone, proc, proc_all))

InitGit ==
    /\ ResolverIdle
    /\ PathIdle
    /\ tree \in Trees
    /\ remote \in [GitSources -> RemoteTips]
    /\ git_call = NoGitCall
    /\ git_prev = NoGitPrev
    /\ git_calls = 0
    /\ CmdIdle

NextGit == Clone \/ Fetch \/ GetCommit \/ Download

SpecGit == InitGit /\ [][NextGit]_vars

\* ------------------------------------------------------ claims on GitRepo
\* C12: get_commit resolves the ref directly first; only if that fails it
\* tries origin/<ref>, once; it returns what the first attempt that succeeded
\* printed, and when both fail it fails with GitCommitNotFound.
C12_GetCommitRetry ==
    (git_call.op = "get_commit" /\ git_call.before.kind # "absent") =>
        LET commit == git_call.arg
            proc == git_call.inputs[1]
            proc_origin == git_call.inputs[2]
            direct == <<"rev-parse", commit>>
            origin == <<"rev-parse", <<"origin/">> \o commit>>
        IN IF proc.returncode = 0
           THEN /\ git_call.cmds = <<direct>>
                /\ git_call.exc = NoError
                /\ git_call.ret = <<rstrip(proc.stdout)>>
           ELSE /\ git_call.cmds = <<direct, origin>>
                /\ IF proc_origin.returncode = 0
                   THEN /\ git_call.exc = NoError
                        /\ git_call.ret = <<rstrip(proc_origin.stdout)>>
                   ELSE git_call.exc.type = "GitCommitNotFound"

\* what C12 leaves of the claim for the code: the same, the failure of both
\* attempts being the GitError of the second.
C12_GetCommitRetryGitError ==
    (git_call.op = "get_commit" /\ git_call.before.kind # "absent") =>
        LET commit == git_call.arg
            proc == git_call.inputs[1]
            proc_origin == git_call.inputs[2]
            direct == <<"rev-parse", commit>>
            origin == <<"rev-parse", <<"origin/">> \o commit>>
        IN IF proc.returncode = 0
           THEN /\ git_call.cmds = <<direct>>
                /\ git_call.exc = NoError
                /\ git_call.ret = <<rstrip(proc.stdout)>>
           ELSE /\ git_call.cmds = <<direct, origin>>
                /\ IF proc_origin.returncode = 0
                   THEN /\ git_call.exc = NoError
                        /\ git_call.ret = <<rstrip(proc_origin.stdout)>>
                   ELSE git_call.exc = GitError

\* the text without the newline that ends it
without_final_newline(text) ==
    IF text # <<>> /\ text[Len(text)] = Newline THEN SubSeq(text, 1, Len(text) - 1)
    ELSE text

\* C13: clone fails with BadSource, carrying the name and the source, exactly
\* when git clone exits non-zero with a stderr that begins with
\* 'fatal: repository ' and ends with 'does not exist'; any other non-zero
\* exit is a GitError.
C13_CloneBadSource ==
    (git_call.op = "clone" /\ git_call.cmds # <<>>) =>
        LET proc == git_call.procs[1]
            missing == /\ proc.returncode # 0
                       /\ startswith(proc.stderr, <<FatalRepository, Space>>)
                       /\ endswith(without_final_newline(proc.stderr), <<DoesNotExist>>)
        IN /\ git_call.cmds = <<<<"clone", "--no-checkout", git_call.arg, "self.path">>>>
           /\ git_call.exc = BadSource(repo_name, git_call.arg) <=> missing
           /\ (proc.returncode # 0 /\ ~missing) => git_call.exc = GitError
           /\ proc.returncode = 0 => git_call.exc = NoError

\* git clone failed with a two-line stderr and clone raised BadSource
C13_Witness ==
    /\ git_call.op = "clone"
    /\ git_call.exc = BadSource(repo_name, git_call.arg)
    /\ Len(git_call.procs[1].stderr) > Len(StderrLine(FatalRepository, DoesNotExist))

\* C14: fetch runs git fetch <source> and then git fetch --all whatever the
\* first gave; it returns success exactly when the first fetch succeeded,
\* fails with BadSource when the first failed with a stderr that contains
\* 'does not appear to be a git repository', and with GitError when it failed
\* otherwise.
C14_FetchOutcome ==
    (git_call.op = "fetch" /\ git_call.before.kind # "absent") =>
        LET proc == git_call.inputs[1] IN
        /\ git_call.cmds = <<<<"fetch", git_call.arg>>, <<"fetch", "--all">>>>
        /\ (git_call.exc = NoError /\ git_call.ret = <<TRUE>>) <=> proc.returncode = 0
        /\ (proc.returncode # 0 /\ contains(proc.stderr, <<NotAGitRepository>>))
               => git_call.exc.type = "BadSource"
        /\ (proc.returncode # 0 /\ ~contains(proc.stderr, <<NotAGitRepository>>))
               => git_call.exc = GitError

\* what C14 leaves of the claim for the code: the same, the failure on
\* 'does not appear to be a git repository' being a TypeError.
C14_FetchOutcomeTypeError ==
    (git_call.op = "fetch" /\ git_call.before.kind # "absent") =>
        LET proc == git_call.inputs[1] IN
        /\ git_call.cmds = <<<<"fetch", git_call.arg>>, <<"fetch", "--all">>>>
        /\ (git_call.exc = NoError /\ git_call.ret = <<TRUE>>) <=> proc.returncode = 0
        /\ (proc.returncode # 0 /\ contains(proc.stderr, <<NotAGitRepository>>))
               => git_call.exc = TypeError
        /\ (proc.returncode # 0 /\ ~contains(proc.stderr, <<NotAGitRepository>>))
               => git_call.exc = GitError

\* the number of git clone commands a call ran
clones(c) == Cardinality({k \in 1..Len(c.cmds) : c.cmds[k][1] = "clone"})

\* C15: download clones only when self.path is not a git repo, so two calls
\* in a row with the same source, git answering the same, run git clone at
\* most once and leave the directory as the first call left it.
C15_DownloadIdempotent ==
    /\ (git_call.op = "download" /\ is_git_repo(git_call.before)) =>
           /\ clones(git_call) = 0
           /\ git_call.exc.type \notin {"AssertionError", "FileExistsError"}
    /\ (git_call.op = "download" /\ ~is_git_repo(git_call.before)
            /\ git_call.before.kind = "absent") => clones(git_call) = 1
    /\ ( /\ git_call.op = "download"
         /\ git_prev.call.op = "download"
         /\ git_call.arg = git_prev.call.arg
         /\ git_call.inputs = git_prev.call.inputs ) =>
           /\ tree = git_call.before
           /\ clones(git_call) = 0
           /\ clones(git_prev.call) <= 1

\* download was called again after a call that cloned and fetched
C15_Witness ==
    /\ git_call.op = "download"
    /\ git_prev.call.op = "download"
    /\ git_call.arg = git_prev.call.arg
    /\ git_call.inputs = git_prev.call.inputs
    /\ clones(git_prev.call) = 1
    /\ git_prev.call.exc = NoError
    /\ git_call.exc = NoError
    /\ Len(git_call.cmds) = 2

\* ------------------------------------------------ main.dependency_from_tag
\* a source string read as a path: absolute or relative, and its components
Source(abs, parts) == [abs |-> abs, parts |-> parts]
TagSources ==
    {Source(FALSE, <<"a">>), Source(FALSE, <<"d", "a">>),
     Source(TRUE, <<"ws", "a">>), Source(TRUE, <<"srv", "a">>)}
Cwds == {wsroot, wsroot \o <<"d">>, <<"home">>}
OriginUrl(q) == IF q = <<"ws", "a">> THEN "git@x:a.git" ELSE "git@y:a.git"
\* what may be at a path: nothing, a directory, a clone with an origin remote
FsEntries(q) ==
    {NoEntry, [exists |-> TRUE, origin |-> "none"]} \cup
        (IF q \in {<<"ws", "a">>, <<"ws", ".wit", "a">>}
         THEN {[exists |-> TRUE, origin |-> OriginUrl(q)]} ELSE {})

\* Dependency(None, source, revision, message)
Dependency(source, revision, message) ==
    [name |-> "", source |-> source, revision |-> revision, message |-> message]

\* base / source
join(base, source) == IF source.abs THEN source.parts ELSE base \o source.parts
\* Path.parent, Path.name, Path.exists() and str(Path.resolve())
path_parent(q) == SubSeq(q, 1, Len(q) - 1)
path_last(q) == q[Len(q)]
exists(f, q) == q \in DOMAIN f /\ f[q].exists
resolved(q) == Source(TRUE, q)

\* the test (path).parent == dir
directly_under_any(q, dir) == TRUE
directly_under(q, dir) == path_parent(q) = dir

\* GitRepo(name, root).get_remote(): git remote get-url origin in root/name
get_remote(f, root, name) ==
    LET q == root \o <<name>> IN
    IF exists(f, q) /\ f[q].origin # "none"
    THEN [exc |-> NoError, ret |-> f[q].origin]
    ELSE [exc |-> GitError, ret |-> ""]

\* main.dependency_from_tag, run in the directory wd
dependency_from_tag(f, wd, root, tag, message) ==
    LET source == tag[1]
        revision == tag[2]
        in_ws == join(root, source)
        in_dotwit == join(root \o <<".wit">>, source)
        in_cwd == join(wd, source)
        Made(src) == [exc |-> NoError, dep |-> <<Dependency(src, revision, message)>>]
        Remote(r) == IF r.exc # NoError THEN [exc |-> r.exc, dep |-> <<>>] ELSE Made(r.ret)
    IN IF exists(f, in_ws) /\ directly_under(in_ws, root)
       THEN Remote(get_remote(f, root, path_last(in_ws)))
       ELSE IF exists(f, in_dotwit) /\ directly_under(in_dotwit, root \o <<".wit">>)
       THEN Remote(get_remote(f, root \o <<".wit">>, path_last(in_dotwit)))
       ELSE IF exists(f, in_ws) THEN Made(resolved(in_ws))
       ELSE IF exists(f, in_cwd) THEN Made(resolved(in_cwd))
       ELSE Made(source)

DependencyFromTag ==
    /\ cmd_call.cmd = "none"
    /\ \E source \in TagSources :
           LET tag == <<source, "master">>
               r == dependency_from_tag(fs, cwd, wsroot, tag, "")
           IN cmd_call' = [cmd |-> "dependency_from_tag", args |-> tag,
                           out |-> r.dep, exc |-> r.exc]
    /\ UNCHANGED <<fs, cwd, cwd_manifest, porcelain, ws_dirs, resolver, path_call, git_vars>>

InitTag ==
    /\ ResolverIdle
    /\ PathIdle
    /\ GitIdle
    /\ fs \in {f \in [FsPaths -> UNION {FsEntries(q) : q \in FsPaths}] :
                  \A q \in FsPaths : f[q] \in FsEntries(q)}
    /\ cwd \in Cwds
    /\ cwd_manifest = NoManifestFile
    /\ porcelain = [n \in Names |-> <<>>]
    /\ ws_dirs = [n \in StatusDirs |-> NoTree]
    /\ cmd_call = NoCmdCall

NextTag == DependencyFromTag

SpecTag == InitTag /\ [][NextTag]_vars

\* C17: dependency_from_tag uses the first rule that matches: <workspace>/S
\* directly under the workspace root gives its origin URL; <workspace>/.wit/S
\* directly under .wit gives its origin URL; <workspace>/S gives its absolute
\* path; S on the filesystem gives its absolute path; otherwise S itself.
C17_SourceResolutionOrder ==
    cmd_call.cmd = "dependency_from_tag" =>
        LET S == cmd_call.args[1]
            in_ws == join(wsroot, S)
            in_dotwit == join(dotwit, S)
            in_cwd == join(cwd, S)
            rule1 == exists(fs, in_ws) /\ path_parent(in_ws) = wsroot
            rule2 == exists(fs, in_dotwit) /\ path_parent(in_dotwit) = dotwit
            rule3 == exists(fs, in_ws)
            rule4 == exists(fs, in_cwd)
            Origin(q) == /\ fs[q].origin # "none" => /\ cmd_call.exc = NoError
                                                      /\ cmd_call.out[1].source = fs[q].origin
                         /\ fs[q].origin = "none" => cmd_call.exc = GitError
            Is(src) == cmd_call.exc = NoError /\ cmd_call.out[1].source = src
        IN CASE rule1 -> Origin(in_ws)
             [] ~rule1 /\ rule2 -> Origin(in_dotwit)
             [] ~rule1 /\ ~rule2 /\ rule3 -> Is(Source(TRUE, in_ws))
             [] ~rule1 /\ ~rule2 /\ ~rule3 /\ rule4 -> Is(Source(TRUE, in_cwd))
             [] OTHER -> Is(S)

\* S is a clone directly under the workspace root and a clone under .wit, both
\* with an origin, and the first was used
C17_Witness ==
    /\ cmd_call.cmd = "dependency_from_tag"
    /\ cmd_call.args[1] = Source(FALSE, <<"a">>)
    /\ fs[<<"ws", "a">>].origin = OriginUrl(<<"ws", "a">>)
    /\ fs[<<"ws", ".wit", "a">>].origin = OriginUrl(<<"ws", ".wit", "a">>)
    /\ cmd_call.out[1].source = OriginUrl(<<"ws", "a">>)

\* --------------------------------------------- main.add_dep, main.update_dep
\* exceptions and exits of the commands
SystemExit(code) == [type |-> "SystemExit", args |-> <<code>>]
NotAPackageError(dirname) == [type |-> "NotAPackageError", args |-> <<dirname>>]
WitUserError == [type |-> "WitUserError", args |-> <<>>]
AttributeError == [type |-> "AttributeError", args |-> <<>>]
PackageNotInWorkspaceError == [type |-> "PackageNotInWorkspaceError", args |-> <<>>]

\* wit-lock.json as the workspace of the commands holds it
LockEntry(n, i) == [name |-> n, source |-> SrcX[n], commit |-> Hash(i)]
CmdLocks ==
    {LockFile(<<>>), LockFile(<<LockEntry("b", 1)>>)} \cup
        {LockFile(<<LockEntry("a", i)>>) : i \in 1..2} \cup
        {LockFile(<<LockEntry("a", i), LockEntry("b", 1)>>) : i \in 1..2}

\* LockFile.contains_package(name)
contains_package(lock, dirname) ==
    \E k \in 1..Len(lock.packages) : lock.packages[k].name = dirname

\* common.error(msg): the message is logged and wit exits with status 1
error_exit == SystemExit(1)

\* cwd.relative_to(ws.root).parts[0]
cwd_dirname(wd) == wd[Len(wsroot) + 1]

\* the name of the dependency every source of TagSources stands for
req_dep_name == "a"

\* main.check_submodule_only: repo_path/GitRepo.SUBMODULE_FILE is evaluated
\* first, and the class GitRepo of gitrepo.py has no attribute SUBMODULE_FILE
check_submodule_only(repo_path) == AttributeError

\* Manifest.contains_dependency, add_dependency, replace_dependency
contains_dependency(manifest, dep) == \E k \in 1..Len(manifest.deps) : manifest.deps[k] = dep
add_dependency(manifest, dep) == [exists |-> TRUE, deps |-> Append(manifest.deps, dep)]
replace_dependency(manifest, dep) == [exists |-> TRUE, deps |-> manifest.deps]

\* how a command ended: its exception, and the wit-manifest.json of cwd
Ended(exc, manifest) == [exc |-> exc, manifest |-> manifest]

\* main.add_dep; loaded is how req_dep.load and req_dep.resolved_rev end
add_dep(f, wd, lock, file, tag, loaded) ==
    LET req_dep == dependency_from_tag(f, wd, wsroot, tag, "") IN
    IF req_dep.exc # NoError THEN Ended(req_dep.exc, file)
    ELSE IF wd = wsroot THEN Ended(error_exit, file)
    ELSE IF ~contains_package(lock, cwd_dirname(wd))
         THEN Ended(NotAPackageError(cwd_dirname(wd)), file)
    ELSE IF loaded = "no commit" THEN Ended(WitUserError, file)
    ELSE IF check_submodule_only(wd) # NoError THEN Ended(check_submodule_only(wd), file)
    ELSE LET manifest == IF file.exists THEN file ELSE [exists |-> FALSE, deps |-> <<>>] IN
         IF contains_dependency(manifest, req_dep_name) THEN Ended(SystemExit(1), file)
         ELSE Ended(NoError, add_dependency(manifest, req_dep_name))

\* main.update_dep
update_dep(f, wd, lock, file, tag, loaded) ==
    LET req_dep == dependency_from_tag(f, wd, wsroot, tag, "") IN
    IF req_dep.exc # NoError THEN Ended(req_dep.exc, file)
    ELSE IF wd = wsroot THEN Ended(error_exit, file)
    ELSE IF check_submodule_only(wd) # NoError THEN Ended(check_submodule_only(wd), file)
    ELSE IF ~file.exists THEN Ended(FileNotFoundError, file)
    ELSE IF ~contains_dependency(file, req_dep_name) THEN Ended(SystemExit(1), file)
    ELSE IF loaded = "no commit" THEN Ended(WitUserError, file)
    ELSE IF loaded = "no repo" THEN Ended(PackageNotInWorkspaceError, file)
    ELSE Ended(NoError, replace_dependency(file, req_dep_name))

\* the command was run with the tag args.pkg, and ended as e
Ran(cmd, tag, loaded, e) ==
    /\ cmd_call' = [cmd |-> cmd, args |-> <<tag, loaded, cwd_manifest>>, out |-> <<>>,
                    exc |-> e.exc]
    /\ cwd_manifest' = e.manifest
    /\ UNCHANGED <<fs, cwd, porcelain, ws_dirs, resolver, path_call, git_vars>>

AddDep ==
    /\ cmd_call.cmd = "none"
    /\ \E source \in TagSources, loaded \in {"ok", "no commit", "no repo"} :
           LET tag == <<source, "master">> IN
           Ran("add_dep", tag, loaded, add_dep(fs, cwd, ws_lock, cwd_manifest, tag, loaded))

UpdateDep ==
    /\ cmd_call.cmd = "none"
    /\ \E source \in TagSources, loaded \in {"ok", "no commit", "no repo"} :
           LET tag == <<source, "master">> IN
           Ran("update_dep", tag, loaded,
               update_dep(fs, cwd, ws_lock, cwd_manifest, tag, loaded))

\* wit is run in the workspace root, in a directory of it or below one
DepCwds == {wsroot, wsroot \o <<"a">>, wsroot \o <<"d">>, wsroot \o <<"a", "x">>}
DepFs ==
    {f \in [FsPaths -> UNION {FsEntries(q) : q \in FsPaths}] :
        /\ f[<<"ws", "a">>] \in FsEntries(<<"ws", "a">>)
        /\ \A q \in FsPaths \ {<<"ws", "a">>} : f[q] = NoEntry}
ManifestFiles ==
    {NoManifestFile, [exists |-> TRUE, deps |-> <<>>], [exists |-> TRUE, deps |-> <<"a">>]}

InitDep ==
    /\ UpdateIdle
    /\ head = [n \in Names |-> 1]
    /\ cloned = {}
    /\ lockfile \in CmdLocks
    /\ ws_lock = lockfile
    /\ PathIdle
    /\ GitIdle
    /\ fs \in DepFs
    /\ cwd \in DepCwds
    /\ (cwd # wsroot /\ cwd[2] = "a") => fs[<<"ws", "a">>].exists
    /\ cwd_manifest \in ManifestFiles
    /\ porcelain = [n \in Names |-> <<>>]
    /\ ws_dirs = [n \in StatusDirs |-> NoTree]
    /\ cmd_call = NoCmdCall

NextDep == AddDep \/ UpdateDep

SpecDep == InitDep /\ [][NextDep]_vars

\* C16: add-dep and update-dep fail with NotAPackage, and write no manifest,
\* when the top-level directory of the current directory under the workspace
\* root is not a package of the lock.
C16_NotAPackage ==
    ( /\ cmd_call.cmd \in {"add_dep", "update_dep"}
      /\ cwd # wsroot
      /\ ~contains_package(ws_lock, cwd_dirname(cwd)) ) =>
        /\ cmd_call.exc.type = "NotAPackageError"
        /\ cwd_manifest = cmd_call.args[3]

\* what C16 leaves of the claim for the code: add-dep, when the source of the
\* tag was resolved, fails with NotAPackage outside a package, and neither
\* command writes a manifest there.
C16_AddDepNotAPackage ==
    ( /\ cmd_call.cmd \in {"add_dep", "update_dep"}
      /\ cwd # wsroot
      /\ ~contains_package(ws_lock, cwd_dirname(cwd)) ) =>
        /\ (cmd_call.cmd = "add_dep" /\ cmd_call.exc # GitError)
               => cmd_call.exc.type = "NotAPackageError"
        /\ cwd_manifest = cmd_call.args[3]

\* ------------------------------------------------------------- main.status
\* lines of git status --porcelain: a changed file, an untracked one, an added one
PorcelainLines ==
    {<<Space, "M", Space, "f">>, <<"?", "?", Space, "g">>, <<"A", Space, Space, "h">>}
Porcelains == SeqsUpTo(PorcelainLines, MaxStatusLines)

\* str.lstrip
RECURSIVE lstrip(_)
lstrip(s) == IF s # <<>> /\ s[1] = Space THEN lstrip(Tail(s)) ELSE s

\* GitRepo.clean, GitRepo.modified, GitRepo.untracked on the lines of proc.stdout
clean(stdout) == stdout = <<>>
modified(stdout) == \E k \in 1..Len(stdout) : startswith(lstrip(stdout[k]), <<"M">>)
untracked(stdout) == \E k \in 1..Len(stdout) : startswith(lstrip(stdout[k]), <<"?", "?">>)

\* GitRepo.get_head_commit in a repository with commits
get_head_commit(t) == Hash(IF t.tip = "old" THEN 1 ELSE 2)

\* package.load(ws.root, False) leaves package.repo None when the directory is absent
repo_is_None(dirs, n) == dirs[n].kind = "absent"

\* the test new_commits = lock_commit != latest_commit
new_commits_never(lock_commit, latest_commit) == FALSE
new_commits(lock_commit, latest_commit) == lock_commit # latest_commit

\* ws.resolve(): the packages and the errors it returns
ResolveResults ==
    {[packages |-> pk, errors |-> e] :
        pk \in {<<>>, <<"a">>}, e \in {<<>>, <<"e1">>}}

\* the lists of status before its first loop
StatusStart == [clean |-> <<>>, dirty |-> <<>>, missing |-> <<>>, seen_paths |-> {}]

\* the loop over ws.lock.packages, from package k on
RECURSIVE status_packages(_, _, _, _, _)
status_packages(packages, k, dirs, porc, acc) ==
    IF k > Len(packages) THEN acc
    ELSE LET package == packages[k]
             n == package.name
         IN IF repo_is_None(dirs, n)
            THEN status_packages(packages, k + 1, dirs, porc,
                                 [acc EXCEPT !.missing = Append(@, n)])
            ELSE LET loaded == [acc EXCEPT !.seen_paths = @ \cup {n}]
                     new == new_commits(package.commit, get_head_commit(dirs[n]))
                     content ==
                         (IF new THEN <<"new commits">> ELSE <<>>) \o
                         (IF modified(porc[n]) THEN <<"modified content">> ELSE <<>>) \o
                         (IF untracked(porc[n]) THEN <<"untracked content">> ELSE <<>>)
                 IN IF new \/ ~clean(porc[n])
                    THEN status_packages(packages, k + 1, dirs, porc,
                                         [loaded EXCEPT !.dirty = Append(@, <<n, content>>)])
                    ELSE status_packages(packages, k + 1, dirs, porc,
                                         [loaded EXCEPT !.clean = Append(@, n)])

\* the loop over ws.root.iterdir()
untracked_packages(dirs, seen_paths) ==
    {n \in StatusDirs :
        /\ dirs[n].kind # "absent"
        /\ n \notin seen_paths
        /\ dirs[n].kind \in {"dir", "repo"}
        /\ is_git_repo(dirs[n])}

\* main.status: what it logs and prints
status(lock, dirs, porc, resolve) ==
    IF ~lock.exists THEN [empty |-> TRUE]
    ELSE LET acc == status_packages(lock.packages, 1, dirs, porc, StatusStart) IN
         [empty |-> FALSE, clean |-> acc.clean, dirty |-> acc.dirty,
          untracked |-> untracked_packages(dirs, acc.seen_paths),
          missing |-> acc.missing, packages |-> resolve.packages,
          errors |-> resolve.errors]

Status ==
    /\ cmd_call.cmd = "none"
    /\ \E resolve \in ResolveResults :
           cmd_call' = [cmd |-> "status", args |-> <<resolve>>,
                        out |-> status(ws_lock, ws_dirs, porcelain, resolve),
                        exc |-> NoError]
    /\ UNCHANGED <<fs, cwd, cwd_manifest, porcelain, ws_dirs, resolver, path_call, git_vars>>

\* the directory of a package is absent or a clone with commits; any other
\* directory under the root may be anything
StatusTrees(n) ==
    IF n \in Names THEN {NoTree} \cup {[kind |-> "repo", tip |-> t] : t \in {"old", "new"}}
    ELSE Trees

InitStatus ==
    /\ UpdateIdle
    /\ head = [n \in Names |-> 1]
    /\ cloned = {}
    /\ lockfile \in CmdLocks \cup {NoLock}
    /\ ws_lock = lockfile
    /\ PathIdle
    /\ GitIdle
    /\ fs = [q \in FsPaths |-> NoEntry]
    /\ cwd = wsroot
    /\ cwd_manifest = NoManifestFile
    /\ ws_dirs \in {d \in [StatusDirs -> Trees] : \A n \in StatusDirs : d[n] \in StatusTrees(n)}
    /\ porcelain \in {p \in [Names -> Porcelains] :
                         \A n \in Names : ws_dirs[n].kind = "absent" => p[n] = <<>>}
    /\ cmd_call = NoCmdCall

NextStatus == Status

SpecStatus == InitStatus /\ [][NextStatus]_vars

\* the names a list of status reports
Reported(list) == {list[k] : k \in 1..Len(list)}
DirtyNames(out) == {out.dirty[k][1] : k \in 1..Len(out.dirty)}
WithNewCommits(out) ==
    {out.dirty[k][1] : k \in {j \in 1..Len(out.dirty) :
        \E m \in 1..Len(out.dirty[j][2]) : out.dirty[j][2][m] = "new commits"}}

no_errors_always(errors) == TRUE
no_errors(errors) == Len(errors) = 0

\* ws.checkout(packages): every package is checked out in its directory
checkout_packages(dirs, packages) ==
    [n \in StatusDirs |->
        IF n \in Reported(packages) THEN [kind |-> "repo", tip |-> "new"] ELSE dirs[n]]

\* common.print_errors(errors)
print_errors(errors) == errors

\* main.update, given what ws.resolve(download=True) returned
main_update(dirs, resolve) ==
    IF no_errors(resolve.errors)
    THEN [checkout |-> TRUE, dirs |-> checkout_packages(dirs, resolve.packages),
          printed |-> <<>>, exc |-> NoError]
    ELSE [checkout |-> FALSE, dirs |-> dirs,
          printed |-> print_errors(resolve.errors), exc |-> SystemExit(1)]

Update ==
    /\ cmd_call.cmd = "none"
    /\ \E resolve \in ResolveResults :
           LET u == main_update(ws_dirs, resolve) IN
           /\ cmd_call' = [cmd |-> "update", args |-> <<resolve, ws_dirs>>,
                           out |-> [checkout |-> u.checkout, printed |-> u.printed],
                           exc |-> u.exc]
           /\ ws_dirs' = u.dirs
    /\ UNCHANGED <<fs, cwd, cwd_manifest, porcelain, resolver, path_call, git_vars>>

InitUpdate ==
    /\ UpdateIdle
    /\ head = [n \in Names |-> 1]
    /\ cloned = {}
    /\ lockfile \in CmdLocks \cup {NoLock}
    /\ ws_lock = lockfile
    /\ PathIdle
    /\ GitIdle
    /\ fs = [q \in FsPaths |-> NoEntry]
    /\ cwd = wsroot
    /\ cwd_manifest = NoManifestFile
    /\ ws_dirs \in {d \in [StatusDirs -> Trees] : \A n \in StatusDirs : d[n] \in StatusTrees(n)}
    /\ porcelain = [n \in Names |-> <<>>]
    /\ cmd_call = NoCmdCall

NextUpdate == Update

SpecUpdate == InitUpdate /\ [][NextUpdate]_vars

\* C19: the update command runs the checkout pass exactly when resolve
\* returned no error; when resolve returned an error it prints the errors,
\* exits with status 1 and checks out no package.
C19_UpdateCheckout ==
    cmd_call.cmd = "update" =>
        LET errors == cmd_call.args[1].errors IN
        /\ cmd_call.out.checkout <=> errors = <<>>
        /\ errors # <<>> =>
               /\ cmd_call.out.printed = errors
               /\ cmd_call.exc = SystemExit(1)
               /\ ws_dirs = cmd_call.args[2]
        /\ errors = <<>> => cmd_call.exc = NoError

\* update ran on a resolve that returned a package to check out and an error
C19_Witness ==
    /\ cmd_call.cmd = "update"
    /\ cmd_call.args[1].errors # <<>>
    /\ cmd_call.args[1].packages # <<>>
    /\ ws_dirs["a"].kind = "absent"
    /\ ~cmd_call.out.checkout

\* --------------------------------- the loop of WorkSpace.update, once more
\* the commit time of the tuple that made the i-th entry of the map
selected_time(vsm, hd, i) ==
    ctime[<<vsm[i].name, get_commit(hd, vsm[i].name, vsm[i].commit)>>]

\* C21: names enter the selected map in strictly descending order of the
\* commit times of their winning tuples: each newly selected name has a
\* commit time strictly less than that of the name selected just before it.
C21_SelectionOrder ==
    pc = "loop" =>
        \A i \in 1..(Len(version_selector_map) - 1) :
            selected_time(version_selector_map, head, i + 1)
                < selected_time(version_selector_map, head, i)

\* what C21 leaves of the claim when commit times are compared as numbers:
\* no newly selected name has a commit time greater than the one before it.
C21_SelectionOrderNotAscending ==
    pc = "loop" =>
        \A i \in 1..(Len(version_selector_map) - 1) :
            selected_time(version_selector_map, head, i + 1)
                <= selected_time(version_selector_map, head, i)

\* one run of update, on a root manifest that declares a first, in a workspace
\* where every checkout succeeds
InitLive ==
    /\ Init
    /\ blocked = {}
    /\ parent = [c \in Commits |-> 0]
    /\ ws_manifest # <<>>
    /\ ws_manifest[1].name = "a"
NextLive == Begin \/ Iterate \/ Finish
\* the interpreter goes on running the loop: an iteration that can be taken
\* is taken
SpecLive == InitLive /\ [][NextLive]_vars /\ WF_vars(Iterate)

\* the manifests of the selected commits of a and b declare each other
Cyclic ==
    /\ Len(version_selector_map) = 2
    /\ \A i \in 1..2 :
           LET e == version_selector_map[i]
               deps == get_dependencies(head, e.repo)
           IN \E k \in 1..Len(deps) : deps[k].name # e.name

\* C22: whatever the repositories, commits and manifests, manifests that
\* declare each other included, the loop of the resolver ends: a run that
\* has entered the loop aborts with an error or finds the queue empty.
C22_Terminates == (pc = "loop") ~> (pc = "done" \/ queue = <<>>)

\* a run ended well on manifests of a and b that declare each other
C22_Witness == Succeeded /\ Cyclic

\* the names in the selected map, and the names declared by the manifest at
\* the selected commit of its i-th entry
SelectedNames(vsm) == {vsm[i].name : i \in 1..Len(vsm)}
DeclaredAtSelected(vsm, hd, i) ==
    DeclaredNames(pkg_manifest[<<vsm[i].name, get_commit(hd, vsm[i].name, vsm[i].commit)>>])

\* C23: when a resolution ends well, the selected map has exactly one entry
\* for each name declared in the root manifest or in the manifest, read at
\* its selected commit, of a selected package, and no entry for another name.
C23_Coverage ==
    Succeeded =>
        /\ SelectedNames(version_selector_map) =
               DeclaredNames(ws_manifest) \cup
                   UNION {DeclaredAtSelected(version_selector_map, head, i) :
                             i \in 1..Len(version_selector_map)}
        /\ \A i \in 1..Len(version_selector_map), j \in 1..Len(version_selector_map) :
               version_selector_map[i].name = version_selector_map[j].name => i = j

\* a run ended well that selected a name only a package's manifest declares
C23_Witness ==
    /\ Succeeded
    /\ \E n \in SelectedNames(version_selector_map) : n \notin DeclaredNames(ws_manifest)

\* C24: in every run a commit-time query or a manifest read for a commit of
\* a repository is issued only when the clone of the repository exists and
\* holds that commit, for the entries of the root manifest as well as for
\* children whose directory existed before the run.
C24_ReadAfterFetch ==
    \A r \in reads : r.cloned /\ r.id # 0

\* what C24 leaves of the claim for the code: a read is issued only in a
\* directory that exists, and a manifest is read only at a commit whose
\* commit time the clone has given.
C24_ReadInClone ==
    \A r \in reads :
        /\ r.cloned
        /\ r.op = "get_dependencies" =>
               /\ r.id # 0
               /\ \E q \in reads :
                      q.op = "commit_to_time" /\ q.name = r.name /\ q.id = r.id

\* C25: within one resolution the selected map is assigned at most once per
\* name: an entry never changes, no name has two entries, and a popped tuple
\* whose name is already selected changes no entry, reads no manifest and
\* pushes no child onto the queue.
C25_WriteOnce ==
    [][(pc = "loop" /\ pc' # "idle") =>
          /\ Len(version_selector_map') >= Len(version_selector_map)
          /\ \A i \in 1..Len(version_selector_map) :
                 version_selector_map'[i] = version_selector_map[i]
          /\ \A i \in 1..Len(version_selector_map'), j \in 1..Len(version_selector_map') :
                 version_selector_map'[i].name = version_selector_map'[j].name => i = j
          /\ (queue # <<>> /\ queue[Len(queue)][3] \in SelectedNames(version_selector_map)) =>
                 /\ version_selector_map' = version_selector_map
                 /\ reads' = reads
                 /\ queued' = queued
                 /\ queue' = remove_at(queue, Len(queue))]_vars

\* a tuple was popped for a name that was selected before, at another commit,
\* and the loop went on
C25_Witness ==
    /\ pc = "loop"
    /\ popped.valid
    /\ popped.was_selected
    /\ popped.commit # popped.selected

\* ------------------------------------------- GitRepo.download, called again
\* git answered every command of the call with exit status 0
AllDone(c) == \A k \in 1..Len(c.inputs) : c.inputs[k].returncode = 0

\* C26: a clone that failed, for instance with BadSource, leaves nothing on
\* disk that blocks a retry: a later download of the same name from a valid
\* source clones and fetches.
C26_RetryAfterFailedClone ==
    ( /\ git_call.op = "download"
      /\ git_prev.call.op \in {"clone", "download"}
      /\ git_prev.call.exc.type = "BadSource"
      /\ AllDone(git_call) ) =>
        /\ git_call.exc = NoError
        /\ clones(git_call) = 1
        /\ tree.kind = "repo"

\* what C26 leaves of the claim for the code: the directory that clone made
\* before git clone failed is still there, and the retry fails on it with
\* FileExistsError before it runs any git command.
C26_RetryBlocked ==
    ( /\ git_call.op = "download"
      /\ git_prev.call.op \in {"clone", "download"}
      /\ git_prev.call.exc.type = "BadSource"
      /\ AllDone(git_call) ) =>
        /\ git_call.before.kind = "dir"
        /\ git_call.exc = FileExistsError
        /\ git_call.cmds = <<>>
        /\ tree = git_call.before

\* ------------------------------------------------------------ main.restore
\* Path.cwd(), args.workspace_name, args.from_workspace and the two files
current_dir == <<"cwd">>
None == "None"
WorkspaceNames == {None, "new"}
FromWorkspaces == {None, "src"}
ws_file == "wit-workspace.json"
lock_file == "wit-lock.json"

\* the places restore looks at or writes to
RestoreDirs == {current_dir, current_dir \o <<"new">>, <<"src">>}
RestorePaths ==
    (RestoreDirs \ {current_dir}) \cup
        {dir \o <<leaf>> : dir \in RestoreDirs \ {<<"src">>}, leaf \in {".wit"}} \cup
        {dir \o <<leaf>> : dir \in RestoreDirs, leaf \in {ws_file, lock_file}}
Present == [exists |-> TRUE, origin |-> "none"]

\* Path.exists(); the current directory always does
path_exists(f, q) == q = current_dir \/ f[q].exists

\* Path.mkdir(), shutil.copy(src, dst)
path_mkdir(f, q) == [f EXCEPT ![q] = Present]
copy(f, src, dst) == IF src = dst THEN f ELSE [f EXCEPT ![dst] = f[src]]

\* where restore puts the workspace, and where it looks for the two files
dest_ws_of(args) ==
    IF args.workspace_name # None THEN current_dir \o <<args.workspace_name>>
    ELSE current_dir
lock_dir_of(args) ==
    IF args.from_workspace # None THEN <<args.from_workspace>> ELSE current_dir

\* how restore ended: the filesystem, what it logged, its exit
Restored(f, logged, exc) == [fs |-> f, log |-> logged, exc |-> exc]

\* main.restore from `dotwit = dest_ws/'.wit'` on, dest_ws being there
restore_in(f, args) ==
    LET dest_ws == dest_ws_of(args)
        lock_dir == lock_dir_of(args)
        dot_wit == dest_ws \o <<".wit">>
        made == path_mkdir(f, dot_wit)
    IN IF path_exists(f, dot_wit) THEN Restored(f, "is already a workspace", SystemExit(1))
       ELSE IF ~path_exists(made, lock_dir \o <<lock_file>>)
       THEN Restored(made, "Could not find wit-lock.json", SystemExit(1))
       ELSE IF ~path_exists(made, lock_dir \o <<ws_file>>)
       THEN Restored(made, "Could not find wit-workspace.json", SystemExit(1))
       ELSE IF args.from_workspace # None \/ args.workspace_name # None
       THEN Restored(copy(copy(made, lock_dir \o <<ws_file>>, dest_ws \o <<ws_file>>),
                          lock_dir \o <<lock_file>>, dest_ws \o <<lock_file>>),
                     "", NoError)
       ELSE Restored(made, "", NoError)

\* main.restore
restore(f, args) ==
    LET dest_ws == dest_ws_of(args) IN
    IF args.workspace_name # None
    THEN IF path_exists(f, dest_ws)
         THEN Restored(f, "already exists", SystemExit(1))
         ELSE restore_in(path_mkdir(f, dest_ws), args)
    ELSE restore_in(f, args)

\* the runs of wit restore so far: how many, the arguments, how the last one
\* ended, the filesystem it found, whether the missing files were supplied
\* before it
RestoreCall(args, runs, r, before, supplied) ==
    [cmd |-> IF runs = 0 THEN "none" ELSE "restore", args |-> args,
     out |-> [runs |-> runs, log |-> r.log, before |-> before, supplied |-> supplied],
     exc |-> r.exc]

CouldNotFind == {"Could not find wit-lock.json", "Could not find wit-workspace.json"}

Restore ==
    /\ cmd_call.out.runs < MaxRuns
    /\ LET r == restore(fs, cmd_call.args) IN
         /\ fs' = r.fs
         /\ cmd_call' = RestoreCall(cmd_call.args, cmd_call.out.runs + 1, r, fs,
                                    cmd_call.cmd = "supplied")
    /\ UNCHANGED <<cwd, cwd_manifest, porcelain, ws_dirs, resolver, path_call, git_vars>>

\* the user puts the two files where restore looked for them
SupplyFiles ==
    /\ cmd_call.cmd = "restore"
    /\ cmd_call.out.log \in CouldNotFind
    /\ LET lock_dir == lock_dir_of(cmd_call.args)
           there == IF lock_dir = current_dir THEN fs ELSE path_mkdir(fs, lock_dir)
       IN fs' = path_mkdir(path_mkdir(there, lock_dir \o <<lock_file>>),
                           lock_dir \o <<ws_file>>)
    /\ cmd_call' = [cmd_call EXCEPT !.cmd = "supplied"]
    /\ UNCHANGED <<cwd, cwd_manifest, porcelain, ws_dirs, resolver, path_call, git_vars>>

InitRestore ==
    /\ ResolverIdle
    /\ PathIdle
    /\ GitIdle
    /\ fs \in {f \in [RestorePaths -> {NoEntry, Present}] :
                  \A q \in RestorePaths :
                      (f[q].exists /\ path_parent(q) # current_dir /\ Len(q) > 1)
                          => f[path_parent(q)].exists}
    /\ cwd = current_dir
    /\ cwd_manifest = NoManifestFile
    /\ porcelain = [n \in Names |-> <<>>]
    /\ ws_dirs = [n \in StatusDirs |-> NoTree]
    /\ \E workspace_name \in WorkspaceNames, from_workspace \in FromWorkspaces :
           cmd_call = RestoreCall([workspace_name |-> workspace_name,
                                   from_workspace |-> from_workspace],
                                  0, Restored(fs, "", NoError), fs, FALSE)

NextRestore == Restore \/ SupplyFiles

SpecRestore == InitRestore /\ [][NextRestore]_vars

\* C27: when restore fails because wit-lock.json or wit-workspace.json is
\* not found, it has created neither the destination directory nor its .wit
\* directory, so the same command succeeds when it is run again after the
\* missing file was supplied.
C27_RestoreAllOrNothing ==
    /\ (cmd_call.cmd = "restore" /\ cmd_call.out.log \in CouldNotFind) =>
           LET dest_ws == dest_ws_of(cmd_call.args) IN
           /\ path_exists(fs, dest_ws) = path_exists(cmd_call.out.before, dest_ws)
           /\ path_exists(fs, dest_ws \o <<".wit">>)
                  = path_exists(cmd_call.out.before, dest_ws \o <<".wit">>)
    /\ (cmd_call.cmd = "restore" /\ cmd_call.out.supplied) => cmd_call.exc = NoError

\* what C27 leaves of the claim for the code: a restore that does not find
\* one of the two files leaves the .wit directory it made, and the same
\* command run again after the files were supplied exits with status 1
\* because the directory is there.
C27_RestoreLeavesDirs ==
    /\ (cmd_call.cmd = "restore" /\ cmd_call.out.log \in CouldNotFind) =>
           LET dot_wit == dest_ws_of(cmd_call.args) \o <<".wit">> IN
           path_exists(fs, dot_wit) /\ ~path_exists(cmd_call.out.before, dot_wit)
    /\ (cmd_call.cmd = "restore" /\ cmd_call.out.supplied) =>
           /\ cmd_call.exc = SystemExit(1)
           /\ cmd_call.out.log \in {"already exists", "is already a workspace"}
           /\ fs = cmd_call.out.before

\* ------------------------------------------------------------ main.foreach
\* exit statuses of the command, and the locks foreach may find
ReturnCodes == {0, 1, 2}
ForeachLocks == CmdLocks \cup {LockFile(<<LockEntry("b", 1), LockEntry("a", 1)>>)}

\* subprocess.run(command, env=env, cwd=location): what was run and where
subprocess_run(pkg, returncode) ==
    [cwd |-> wsroot \o <<pkg.name>>,
     env |-> [WIT_REPO_NAME |-> pkg.name, WIT_REPO_PATH |-> wsroot \o <<pkg.name>>,
              WIT_LOCK_SOURCE |-> pkg.source, WIT_LOCK_COMMIT |-> pkg.commit,
              WIT_WORKSPACE |-> wsroot],
     returncode |-> returncode]

\* proc.returncode != 0
failed_never(proc) == FALSE
failed(proc) == proc.returncode # 0

\* how foreach ended: the commands it ran, in order, and its exit
Foreached(ran, exc) == [ran |-> ran, exc |-> exc]

\* the loop of main.foreach from package k on, and the exit after it
RECURSIVE foreach_from(_, _, _, _, _, _, _)
foreach_from(packages, k, dirs, returncodes, continue_on_fail, ran, has_fail) ==
    IF k > Len(packages)
    THEN Foreached(ran, IF has_fail THEN SystemExit(1) ELSE NoError)
    ELSE LET pkg == packages[k]
             proc == subprocess_run(pkg, returncodes[k])
         IN IF dirs[pkg.name].kind = "absent" THEN Foreached(ran, FileNotFoundError)
            ELSE IF failed(proc)
            THEN IF ~continue_on_fail
                 THEN Foreached(Append(ran, proc), SystemExit(proc.returncode))
                 ELSE foreach_from(packages, k + 1, dirs, returncodes, continue_on_fail,
                                   Append(ran, proc), TRUE)
            ELSE foreach_from(packages, k + 1, dirs, returncodes, continue_on_fail,
                              Append(ran, proc), has_fail)

\* main.foreach
foreach(lock, dirs, returncodes, continue_on_fail) ==
    IF ~lock.exists THEN Foreached(<<>>, AttributeError)
    ELSE foreach_from(lock.packages, 1, dirs, returncodes, continue_on_fail, <<>>, FALSE)

Foreach ==
    /\ cmd_call.cmd = "none"
    /\ \E continue_on_fail \in BOOLEAN, returncodes \in [1..2 -> ReturnCodes] :
           LET r == foreach(ws_lock, ws_dirs, returncodes, continue_on_fail) IN
           cmd_call' = [cmd |-> "foreach",
                        args |-> [continue_on_fail |-> continue_on_fail,
                                  returncodes |-> returncodes],
                        out |-> r.ran, exc |-> r.exc]
    /\ UNCHANGED <<fs, cwd, cwd_manifest, porcelain, ws_dirs, resolver, path_call, git_vars>>

InitForeach ==
    /\ UpdateIdle
    /\ head = [n \in Names |-> 1]
    /\ cloned = {}
    /\ lockfile \in ForeachLocks \cup {NoLock}
    /\ ws_lock = lockfile
    /\ PathIdle
    /\ GitIdle
    /\ fs = [q \in FsPaths |-> NoEntry]
    /\ cwd = wsroot
    /\ cwd_manifest = NoManifestFile
    /\ ws_dirs \in {d \in [StatusDirs -> Trees] : \A n \in StatusDirs : d[n] \in StatusTrees(n)}
    /\ porcelain = [n \in Names |-> <<>>]
    /\ cmd_call = NoCmdCall

NextForeach == Foreach

SpecForeach == InitForeach /\ [][NextForeach]_vars

\* foreach has run with a lock whose package directories are all there
ForeachRan ==
    /\ cmd_call.cmd = "foreach"
    /\ ws_lock.exists
    /\ \A k \in 1..Len(ws_lock.packages) : ws_dirs[ws_lock.packages[k].name].kind # "absent"

\* the positions of the lock whose command exits non-zero
Failing == {k \in 1..Len(ws_lock.packages) : cmd_call.args.returncodes[k] # 0}
FirstFailing == CHOOSE k \in Failing : \A j \in Failing : k <= j

=============================================================================
